---------------------------- MODULE Spec2Model ----------------------------
(***************************************************************************)
(* Model of the Aura demo dashboard (src/app/aura_demo.py).                *)
(*                                                                         *)
(* The dashboard is a Streamlit script: every user interaction (a button   *)
(* click, a change of the scenario selector or of the spend input) runs    *)
(* main() once from the top.  Between runs only st.session_state and the   *)
(* widget values survive.  st.button(...) is True only in the run caused   *)
(* by a click on that button, and a button can be clicked only if the      *)
(* previous run rendered it.  A run is modelled by the operator main,      *)
(* which threads the session state and the rendered page through the       *)
(* functions of the script in the order the script calls them.             *)
(*                                                                         *)
(* Strings of the source that carry an emoji prefix are written without    *)
(* it.                                                                     *)
(***************************************************************************)
EXTENDS Integers, Sequences, FiniteSets, TLC

(***************************************************************************)
(* Bounds of the model.                                                    *)
(***************************************************************************)
\* Number of button clicks from the start of the session that `trace' records.
MaxTrace == 3
\* Saturation value of the count of Defer clicks made while the plan awaits approval.
MaxDefers == 2
\* Largest value of the clock the tool functions read.
MaxClock == 2

(***************************************************************************)
(* Scenario catalog of the dashboard.                                      *)
(***************************************************************************)
\* list(alert_scenarios.keys()): the options of the scenario selector, in order.
alert_scenarios ==
    << "cost_anomaly", "security_vulnerability", "performance_degradation",
       "storage_waste", "network_anomaly", "compliance_violation" >>

Scenarios == { alert_scenarios[i] : i \in 1..Len(alert_scenarios) }

\* The dict `alerts' of get_alert_info.
alerts ==
    [ cost_anomaly |->
        [ severity |-> "HIGH", resource |-> "expensive-vm", duration |-> "18 hours",
          description |-> "VM running with 2% CPU usage - likely abandoned workload" ],
      security_vulnerability |->
        [ severity |-> "CRITICAL", resource |-> "allow-all-firewall", duration |-> "2 days",
          description |-> "Firewall rule allows unrestricted access from 0.0.0.0/0" ],
      performance_degradation |->
        [ severity |-> "MEDIUM", resource |-> "web-server", duration |-> "35 minutes",
          description |-> "Memory usage sustained above 90%" ],
      storage_waste |->
        [ severity |-> "MEDIUM", resource |-> "orphaned-disks-pool", duration |-> "30 days",
          description |-> "47 unattached disk volumes consuming storage unnecessarily" ],
      network_anomaly |->
        [ severity |-> "HIGH", resource |-> "frontend-load-balancer", duration |-> "15 minutes",
          description |-> "Traffic spike 400% above normal - potential DDoS attack" ],
      compliance_violation |->
        [ severity |-> "CRITICAL", resource |-> "customer-database", duration |-> "detected now",
          description |-> "Production database without encryption - GDPR violation risk" ] ]

\* The dict `analysis' of get_analysis_data (the factor lists are kept by their first entry).
analysis ==
    [ cost_anomaly |->
        [ confidence |-> 95, risk |-> 3, urgency |-> "Medium",
          root_cause |-> "VM instance running with minimal CPU utilization, indicating abandoned workload",
          factors |-> "No automatic shutdown policies configured" ],
      security_vulnerability |->
        [ confidence |-> 98, risk |-> 9, urgency |-> "Critical",
          root_cause |-> "Firewall rule permits unrestricted access from any IP on all ports",
          factors |-> "Rule likely created for testing and forgotten" ],
      performance_degradation |->
        [ confidence |-> 87, risk |-> 5, urgency |-> "High",
          root_cause |-> "Web server undersized for current traffic load causing memory exhaustion",
          factors |-> "Traffic increased beyond instance capacity" ],
      storage_waste |->
        [ confidence |-> 92, risk |-> 4, urgency |-> "Medium",
          root_cause |-> "Multiple disk volumes remain unattached after VM deletions",
          factors |-> "No automatic cleanup policies configured" ],
      network_anomaly |->
        [ confidence |-> 88, risk |-> 7, urgency |-> "High",
          root_cause |-> "Unusual traffic pattern suggests DDoS attack or viral content",
          factors |-> "Traffic increased 400% in 15 minutes" ],
      compliance_violation |->
        [ confidence |-> 99, risk |-> 9, urgency |-> "Critical",
          root_cause |-> "Customer database lacks encryption violating GDPR requirements",
          factors |-> "Database created without encryption" ] ]

\* The dict `plans' of get_remediation_data (the command script and the safety
\* list are opaque display text and are kept by the rollback command only).
plans ==
    [ cost_anomaly |->
        [ action |-> "Stop unused VM instance", time |-> "2 minutes",
          outcome |-> "$30/day cost savings", success_rate |-> 95,
          rollback |-> "gcloud compute instances start expensive-vm --zone=us-central1-a" ],
      security_vulnerability |->
        [ action |-> "Replace firewall rule", time |-> "1 minute",
          outcome |-> "99% attack surface reduction", success_rate |-> 92,
          rollback |-> "# Not recommended - recreates vulnerability" ],
      performance_degradation |->
        [ action |-> "Upgrade instance type", time |-> "4 minutes",
          outcome |-> "2x memory capacity", success_rate |-> 89,
          rollback |-> "gcloud compute instances set-machine-type web-server --machine-type=n1-standard-2" ],
      storage_waste |->
        [ action |-> "Delete orphaned disk volumes", time |-> "3 minutes",
          outcome |-> "$200/month storage savings", success_rate |-> 94,
          rollback |-> "gcloud compute disks snapshot [disk-name] --snapshot-names=recovery-backup" ],
      network_anomaly |->
        [ action |-> "Enable DDoS protection", time |-> "2 minutes",
          outcome |-> "Traffic normalized, attack blocked", success_rate |-> 91,
          rollback |-> "gcloud compute security-policies delete ddos-protection" ],
      compliance_violation |->
        [ action |-> "Enable database encryption", time |-> "5 minutes",
          outcome |-> "GDPR compliance restored", success_rate |-> 96,
          rollback |-> "gcloud sql backups restore [BACKUP_ID] --restore-instance=customer-database" ] ]

\* Variant of `impacts' in which the last scenario was never added.
impacts_WithoutLastScenario ==
    [ cost_anomaly |->
        [ title |-> "Cost Optimization Complete",
          details |-> << "VM 'expensive-vm' safely stopped",
                         "Cost reduced from $45/day to $15/day",
                         "Monthly savings: $900",
                         "Backup created for safety" >> ],
      security_vulnerability |->
        [ title |-> "Security Vulnerability Eliminated",
          details |-> << "Dangerous firewall rule removed",
                         "Secure replacement created",
                         "Attack surface reduced by 99%",
                         "Critical risk eliminated" >> ],
      performance_degradation |->
        [ title |-> "Performance Issue Resolved",
          details |-> << "Server upgraded to n1-standard-4",
                         "Memory doubled from 8GB to 16GB",
                         "Performance restored to optimal",
                         "Expected 70% reduction in memory pressure" >> ],
      storage_waste |->
        [ title |-> "Storage Optimization Complete",
          details |-> << "47 orphaned disk volumes deleted",
                         "Storage cost reduced by $200/month",
                         "Automatic cleanup policy implemented",
                         "Future waste prevention enabled" >> ],
      network_anomaly |->
        [ title |-> "Network Security Enhanced",
          details |-> << "DDoS protection successfully enabled",
                         "Malicious traffic blocked at edge",
                         "Normal traffic flow restored",
                         "24/7 monitoring activated" >> ] ]

\* The dict `impacts' of get_impact_data.
impacts ==
    [ cost_anomaly |->
        [ title |-> "Cost Optimization Complete",
          details |-> << "VM 'expensive-vm' safely stopped",
                         "Cost reduced from $45/day to $15/day",
                         "Monthly savings: $900",
                         "Backup created for safety" >> ],
      security_vulnerability |->
        [ title |-> "Security Vulnerability Eliminated",
          details |-> << "Dangerous firewall rule removed",
                         "Secure replacement created",
                         "Attack surface reduced by 99%",
                         "Critical risk eliminated" >> ],
      performance_degradation |->
        [ title |-> "Performance Issue Resolved",
          details |-> << "Server upgraded to n1-standard-4",
                         "Memory doubled from 8GB to 16GB",
                         "Performance restored to optimal",
                         "Expected 70% reduction in memory pressure" >> ],
      storage_waste |->
        [ title |-> "Storage Optimization Complete",
          details |-> << "47 orphaned disk volumes deleted",
                         "Storage cost reduced by $200/month",
                         "Automatic cleanup policy implemented",
                         "Future waste prevention enabled" >> ],
      network_anomaly |->
        [ title |-> "Network Security Enhanced",
          details |-> << "DDoS protection successfully enabled",
                         "Malicious traffic blocked at edge",
                         "Normal traffic flow restored",
                         "24/7 monitoring activated" >> ],
      compliance_violation |->
        [ title |-> "Compliance Violation Resolved",
          details |-> << "Database encryption enabled successfully",
                         "GDPR compliance requirements met",
                         "Customer data now fully protected",
                         "Audit trail maintained for compliance" >> ] ]

\* What a call leaves when it raises KeyError instead of returning.
KeyError(key) == [ raised |-> "KeyError", key |-> key ]

\* d[key] of a Python dict: the value, or KeyError when the key is missing.
Subscript(d, key) == IF key \in DOMAIN d THEN d[key] ELSE KeyError(key)

\* return alerts[scenario]
get_alert_info(scenario) == Subscript(alerts, scenario)

\* return analysis[scenario]
get_analysis_data(scenario) == Subscript(analysis, scenario)

\* return plans[scenario]
get_remediation_data(scenario) == Subscript(plans, scenario)

\* return impacts[scenario]
get_impact_data(scenario) == Subscript(impacts, scenario)

(***************************************************************************)
(* The tool functions of the agent (src/app/agent.py).  A JSON text is     *)
(* represented by the value it encodes together with the indent it was     *)
(* written with; an f-string by the tuple of its parts; the metrics of an  *)
(* alert and the prose of the risk assessments are left out.               *)
(***************************************************************************)
\* _, project_id = google.auth.default()
project_id == "project_id"

\* datetime.datetime.now().isoformat() at clock value t
isoformat(t) == << "isoformat", t >>

\* json.dumps(obj, indent=indent)
json_dumps(obj, indent) == [ json |-> obj, indent |-> indent ]

\* The keys of DEMO_ALERTS in insertion order.
DEMO_ALERTS_keys == << "cost_spike", "security_breach", "performance_issue" >>

\* DEMO_ALERTS as the module builds it when it is imported at clock value t.
DEMO_ALERTS_at_import(t) ==
    [ cost_spike |->
        [ alert_id |-> "cost-alert-001", type |-> "billing_anomaly", severity |-> "HIGH",
          resource |-> << "projects/", project_id, "/zones/us-central1-a/instances/expensive-vm" >>,
          description |-> "Compute Engine cost increased by 300% in the last 6 hours",
          timestamp |-> isoformat(t) ],
      security_breach |->
        [ alert_id |-> "sec-alert-001", type |-> "firewall_violation", severity |-> "CRITICAL",
          resource |-> << "projects/", project_id, "/global/firewalls/allow-all-traffic" >>,
          description |-> "Firewall rule allows unrestricted internet access on all ports",
          timestamp |-> isoformat(t) ],
      performance_issue |->
        [ alert_id |-> "perf-alert-001", type |-> "resource_exhaustion", severity |-> "MEDIUM",
          resource |-> << "projects/", project_id, "/zones/us-west1-a/instances/web-server" >>,
          description |-> "Memory usage sustained above 90% for 30+ minutes",
          timestamp |-> isoformat(t) ] ]

\* list(d.keys()) for a dict d over the keys of DEMO_ALERTS
keys_list(d) == SelectSeq(DEMO_ALERTS_keys, LAMBDA k : k \in DOMAIN d)

\* The dict `analyses' of analyze_root_cause, built anew by every call.
analyses ==
    [ cost_spike |->
        [ root_cause |-> "VM instance running for 18+ hours with minimal CPU utilization (2%).",
          contributing_factors |-> << "No automatic shutdown policy configured",
                                      "No resource utilization monitoring alerts",
                                      "VM oversized for actual workload" >>,
          confidence_score |-> 95 ],
      security_breach |->
        [ root_cause |-> "Firewall rule 'allow-all-traffic' permits unrestricted access from any IP address on all ports",
          contributing_factors |-> << "Overly permissive rule likely created for testing",
                                      "No regular security audit of firewall rules",
                                      "Missing principle of least privilege implementation" >>,
          confidence_score |-> 98 ],
      performance_issue |->
        [ root_cause |-> "Web server instance undersized for current traffic load, leading to memory exhaustion and performance degradation.",
          contributing_factors |-> << "Traffic increased beyond instance capacity",
                                      "No auto-scaling configured",
                                      "Memory-intensive applications not optimized" >>,
          confidence_score |-> 87 ] ]

\* The dict `remediation_plans' of generate_remediation_plan, built anew by
\* every call (the command list is kept by its two gcloud command heads).
remediation_plans ==
    [ cost_spike |->
        [ recommended_action |-> "shutdown_unused_instance", urgency |-> "Medium",
          estimated_time |-> "2 minutes",
          commands |-> << "gcloud compute instances stop expensive-vm \\",
                          << "  --project=", project_id >> >>,
          expected_outcome |-> "Cost savings of $30/day (~$900/month)",
          risk_level |-> 2, approval_required |-> TRUE ],
      security_breach |->
        [ recommended_action |-> "replace_firewall_rule", urgency |-> "Critical",
          estimated_time |-> "1 minute",
          commands |-> << "gcloud compute firewall-rules delete allow-all-traffic \\",
                          << "  --project=", project_id, " \\" >> >>,
          expected_outcome |-> "Eliminates critical security vulnerability, reduces attack surface by 99%",
          risk_level |-> 8, approval_required |-> TRUE ],
      performance_issue |->
        [ recommended_action |-> "upgrade_instance_type", urgency |-> "Medium",
          estimated_time |-> "5 minutes",
          commands |-> << "gcloud compute instances stop web-server \\",
                          << "  --project=", project_id >> >>,
          expected_outcome |-> "Double memory capacity (8GB -> 16GB), improved performance and stability",
          risk_level |-> 4, approval_required |-> TRUE ] ]

\* The dict `execution_results' of simulate_remediation_execution, built anew
\* by every call.
execution_results ==
    [ cost_spike |->
        [ status |-> "SUCCESS", execution_time |-> "2.3 seconds", commands_executed |-> 2,
          outcome |-> "VM 'expensive-vm' successfully stopped",
          next_monitoring |-> "Will monitor for 24 hours to ensure no business impact" ],
      security_breach |->
        [ status |-> "SUCCESS", execution_time |-> "1.8 seconds", commands_executed |-> 2,
          outcome |-> "Dangerous firewall rule removed, secure replacement created",
          next_monitoring |-> "Security scan scheduled for 1 hour to verify fix" ],
      performance_issue |->
        [ status |-> "SUCCESS", execution_time |-> "4.7 seconds", commands_executed |-> 3,
          outcome |-> "Web server upgraded from n1-standard-2 to n1-standard-4",
          next_monitoring |-> "Performance metrics will be monitored for 2 hours" ] ]

\* record[key] = value on a Python dict held as a record
SetItem(record, key, value) ==
    [ k \in (DOMAIN record) \cup {key} |-> IF k = key THEN value ELSE record[k] ]

\* "\n".join(lines)
join_lines(lines) == [ separator |-> "\n", parts |-> lines ]

\* The tool functions.  Each takes the identifier, the module's DEMO_ALERTS
\* as it stands and the clock value, and gives what it returns together
\* with DEMO_ALERTS as the call leaves it.
\* Variant of process_cloud_alert whose error result carries no available_types.
process_cloud_alert_NoTypes(alert_type, D, t) ==
    IF alert_type \notin DOMAIN D
    THEN [ returns |-> json_dumps([ error |-> << "Unknown alert type: ", alert_type >> ],
                                  "None"),
           DEMO_ALERTS |-> D ]
    ELSE [ returns |-> json_dumps([ alert_processed |-> TRUE,
                                    alert_details |-> D[alert_type],
                                    analysis_timestamp |-> isoformat(t),
                                    next_action |-> "analyze_root_cause" ], 2),
           DEMO_ALERTS |-> D ]

\* Variant of process_cloud_alert that stamps the time of processing on the
\* alert record it took from DEMO_ALERTS, in place.
process_cloud_alert_StampsCatalog(alert_type, D, t) ==
    IF alert_type \notin DOMAIN D
    THEN [ returns |-> json_dumps([ error |-> << "Unknown alert type: ", alert_type >>,
                                    available_types |-> keys_list(D) ], "None"),
           DEMO_ALERTS |-> D ]
    ELSE LET alert == [ D[alert_type] EXCEPT !.timestamp = isoformat(t) ]
         IN  [ returns |-> json_dumps([ alert_processed |-> TRUE,
                                        alert_details |-> alert,
                                        analysis_timestamp |-> isoformat(t),
                                        next_action |-> "analyze_root_cause" ], 2),
               DEMO_ALERTS |-> [ D EXCEPT ![alert_type] = alert ] ]

process_cloud_alert(alert_type, D, t) ==
    IF alert_type \notin DOMAIN D
    THEN [ returns |-> json_dumps([ error |-> << "Unknown alert type: ", alert_type >>,
                                    available_types |-> keys_list(D) ], "None"),
           DEMO_ALERTS |-> D ]
    ELSE [ returns |-> json_dumps([ alert_processed |-> TRUE,
                                    alert_details |-> D[alert_type],
                                    analysis_timestamp |-> isoformat(t),
                                    next_action |-> "analyze_root_cause" ], 2),
           DEMO_ALERTS |-> D ]

analyze_root_cause(alert_type, D, t) ==
    IF alert_type \notin DOMAIN analyses
    THEN [ returns |-> json_dumps([ error |-> << "No analysis available for ", alert_type >> ],
                                  "None"),
           DEMO_ALERTS |-> D ]
    ELSE [ returns |-> json_dumps(SetItem(analyses[alert_type], "analysis_timestamp",
                                          isoformat(t)), 2),
           DEMO_ALERTS |-> D ]

generate_remediation_plan(alert_type, D, t) ==
    IF alert_type \notin DOMAIN remediation_plans
    THEN [ returns |-> json_dumps([ error |-> << "No remediation plan available for ",
                                                 alert_type >> ], "None"),
           DEMO_ALERTS |-> D ]
    ELSE LET plan == SetItem(remediation_plans[alert_type], "plan_generated", isoformat(t))
         IN  [ returns |-> json_dumps(SetItem(plan, "commands_formatted",
                                              join_lines(plan.commands)), 2),
               DEMO_ALERTS |-> D ]

simulate_remediation_execution(alert_type, D, t) ==
    IF alert_type \notin DOMAIN execution_results
    THEN [ returns |-> json_dumps([ error |-> << "Cannot execute remediation for ",
                                                 alert_type >> ], "None"),
           DEMO_ALERTS |-> D ]
    ELSE LET result == SetItem(execution_results[alert_type], "execution_timestamp",
                               isoformat(t))
         IN  [ returns |-> json_dumps(SetItem(result, "executed_by", "Aura Autonomous Agent"),
                                      2),
               DEMO_ALERTS |-> D ]


(***************************************************************************)
(* st.session_state: a mapping that holds only the keys that were set.     *)
(***************************************************************************)
EmptySession == [ k \in {} |-> TRUE ]

\* st.session_state.get(key, default)
Get(ss, key, default) == IF key \in DOMAIN ss THEN ss[key] ELSE default

\* st.session_state.<key> = value
Set(ss, key, value) ==
    [ k \in (DOMAIN ss) \cup {key} |-> IF k = key THEN value ELSE ss[k] ]

\* if key in st.session_state: del st.session_state[key]
Del(ss, key) == [ k \in (DOMAIN ss) \ {key} |-> ss[k] ]

(***************************************************************************)
(* The page a run renders: the buttons it offers, the records it shows     *)
(* (by section) and the notice (st.error / st.warning) it prints.          *)
(***************************************************************************)
Buttons == { "launch", "start_analysis", "approve", "reject", "defer", "run_another" }

EmptyPage ==
    [ buttons |-> {}, shown |-> [ k \in {} |-> TRUE ], notice |-> "none",
      projected_savings |-> 0 ]

\* st.button(...) is reached: the page offers the button.
Button(page, key) == [ page EXCEPT !.buttons = @ \cup {key} ]

\* A record is written to the page under a section.
Show(page, section, record) ==
    [ page EXCEPT !.shown =
        [ k \in (DOMAIN @) \cup {section} |-> IF k = section THEN record ELSE @[k] ] ]

\* number_input("Monthly Cloud Spend ($)", 10000, 1000000, 50000)
min_value == 10000
max_value == 1000000
default_value == 50000
SpendInputs == { min_value, default_value, max_value }

\* projected_savings = monthly_spend * 0.15
add_live_features(page, monthly_spend) ==
    [ page EXCEPT !.projected_savings = (monthly_spend * 15) \div 100 ]

(***************************************************************************)
(* The script.  r = [ss, page, rerun] is the state of a run in progress;   *)
(* `clicked' is the button whose click caused the run ("none" for a run    *)
(* caused by a widget change or by st.rerun()).                            *)
(***************************************************************************)
\* Variant of run_analysis that flips analysis_done instead of setting it.
run_analysis_Toggle(scenario, r) ==
    [ r EXCEPT !.ss = Set(@, "analysis_done", ~Get(@, "analysis_done", FALSE)) ]

\* run_analysis: the progress display is emptied again; analysis_done is set.
run_analysis(scenario, r) ==
    [ r EXCEPT !.ss = Set(@, "analysis_done", TRUE) ]

show_analysis_results(scenario, r) ==
    [ r EXCEPT !.page = Show(@, "analysis", get_analysis_data(scenario)) ]

show_remediation_plan(scenario, r) ==
    [ r EXCEPT !.page = Show(@, "remediation", get_remediation_data(scenario)) ]

\* execute_remediation: prints the EXECUTING REMEDIATION header, runs the
\* progress display and sets execution_done.
execute_remediation(scenario, r) ==
    [ r EXCEPT !.page = Show(@, "executing", TRUE),
               !.ss = Set(@, "execution_done", TRUE) ]

\* Variant of show_execution_results that shows the impact summary of a fixed
\* scenario instead of the one it is given.
show_execution_results_FixedImpact(scenario, r, clicked) ==
    LET results == [ execution_time |-> "2.3 seconds", commands_run |-> "3/3",
                     status |-> "Success", rollback |-> "Available" ]
        r1 == [ r EXCEPT !.page = Button(Show(Show(@, "results", results),
                                              "impact", get_impact_data(alert_scenarios[1])),
                                         "run_another") ]
    IN  IF clicked = "run_another"
        THEN [ r1 EXCEPT !.ss = Del(Del(Del(Del(@, "demo_running"), "analysis_done"),
                                        "execution_done"), "current_scenario"),
                         !.rerun = TRUE ]
        ELSE r1

\* Variant of show_execution_results whose keys_to_clear lacks analysis_done.
show_execution_results_KeepsAnalysis(scenario, r, clicked) ==
    LET results == [ execution_time |-> "2.3 seconds", commands_run |-> "3/3",
                     status |-> "Success", rollback |-> "Available" ]
        r1 == [ r EXCEPT !.page = Button(Show(Show(@, "results", results),
                                              "impact", get_impact_data(scenario)),
                                         "run_another") ]
    IN  IF clicked = "run_another"
        THEN [ r1 EXCEPT !.ss = Del(Del(Del(@, "demo_running"),
                                        "execution_done"), "current_scenario"),
                         !.rerun = TRUE ]
        ELSE r1

\* show_execution_results: the fixed result metrics, the impact summary of
\* the scenario, and the Run Another Demo button, which deletes the four
\* session keys and calls st.rerun().
show_execution_results(scenario, r, clicked) ==
    LET results == [ execution_time |-> "2.3 seconds", commands_run |-> "3/3",
                     status |-> "Success", rollback |-> "Available" ]
        r1 == [ r EXCEPT !.page = Button(Show(Show(@, "results", results),
                                              "impact", get_impact_data(scenario)),
                                         "run_another") ]
    IN  IF clicked = "run_another"
        THEN [ r1 EXCEPT !.ss = Del(Del(Del(Del(@, "demo_running"), "analysis_done"),
                                        "execution_done"), "current_scenario"),
                         !.rerun = TRUE ]
        ELSE r1

\* Variant of show_execution_section in which Defer drops analysis_done.
show_execution_section_DeferDrops(scenario, r, clicked) ==
    LET r1 == [ r EXCEPT !.page = Button(@, "approve") ]
        r2 == IF clicked = "approve" THEN execute_remediation(scenario, r1) ELSE r1
        r3 == [ r2 EXCEPT !.page = Button(@, "reject") ]
        r4 == IF clicked = "reject" THEN [ r3 EXCEPT !.page.notice = "rejected" ] ELSE r3
        r5 == [ r4 EXCEPT !.page = Button(@, "defer") ]
        r6 == IF clicked = "defer"
              THEN [ r5 EXCEPT !.page.notice = "deferred", !.ss = Del(@, "analysis_done") ]
              ELSE r5
    IN  IF Get(r6.ss, "execution_done", FALSE)
        THEN show_execution_results(scenario, r6, clicked)
        ELSE r6

\* Variant of show_execution_section that shows the execution results only in
\* the run of the Approve click instead of whenever execution_done is set.
show_execution_section_ResultsOnClick(scenario, r, clicked) ==
    LET r1 == [ r EXCEPT !.page = Button(@, "approve") ]
        r2 == IF clicked = "approve" THEN execute_remediation(scenario, r1) ELSE r1
        r3 == [ r2 EXCEPT !.page = Button(@, "reject") ]
        r4 == IF clicked = "reject" THEN [ r3 EXCEPT !.page.notice = "rejected" ] ELSE r3
        r5 == [ r4 EXCEPT !.page = Button(@, "defer") ]
        r6 == IF clicked = "defer" THEN [ r5 EXCEPT !.page.notice = "deferred" ] ELSE r5
    IN  IF clicked = "approve"
        THEN show_execution_results(scenario, r6, clicked)
        ELSE r6

show_execution_section(scenario, r, clicked) ==
    LET r1 == [ r EXCEPT !.page = Button(@, "approve") ]
        r2 == IF clicked = "approve" THEN execute_remediation(scenario, r1) ELSE r1
        r3 == [ r2 EXCEPT !.page = Button(@, "reject") ]
        r4 == IF clicked = "reject" THEN [ r3 EXCEPT !.page.notice = "rejected" ] ELSE r3
        r5 == [ r4 EXCEPT !.page = Button(@, "defer") ]
        r6 == IF clicked = "defer" THEN [ r5 EXCEPT !.page.notice = "deferred" ] ELSE r5
    IN  IF Get(r6.ss, "execution_done", FALSE)
        THEN show_execution_results(scenario, r6, clicked)
        ELSE r6

\* Variant of run_demo that renders steps 2 to 4 whether or not analysis_done is set.
run_demo_NoAnalysisGate(scenario, r, clicked) ==
    LET r1 == [ r EXCEPT !.page = Button(Show(@, "alert", get_alert_info(scenario)),
                                         "start_analysis") ]
        r2 == IF clicked = "start_analysis" THEN run_analysis(scenario, r1) ELSE r1
    IN  show_execution_section(scenario,
            show_remediation_plan(scenario, show_analysis_results(scenario, r2)),
            clicked)

run_demo(scenario, r, clicked) ==
    LET r1 == [ r EXCEPT !.page = Button(Show(@, "alert", get_alert_info(scenario)),
                                         "start_analysis") ]
        r2 == IF clicked = "start_analysis" THEN run_analysis(scenario, r1) ELSE r1
    IN  IF Get(r2.ss, "analysis_done", FALSE)
        THEN show_execution_section(scenario,
                 show_remediation_plan(scenario, show_analysis_results(scenario, r2)),
                 clicked)
        ELSE r2

\* Variant of main that runs the demo for the selector's value whether or not
\* demo_running is set.
main_NoDemoGate(ss, selected, spend, clicked) ==
    LET demo_started == clicked = "launch"
        ss1 == IF demo_started
               THEN Set(Set(ss, "demo_running", TRUE), "current_scenario", selected)
               ELSE ss
        r1 == [ ss |-> ss1,
                page |-> add_live_features(Button(EmptyPage, "launch"), spend),
                rerun |-> FALSE ]
    IN  run_demo(selected, r1, clicked)

\* Variant of main that runs the demo for the selector's value instead of
\* the current scenario of the session.
main_RunsSelected(ss, selected, spend, clicked) ==
    LET demo_started == clicked = "launch"
        ss1 == IF demo_started
               THEN Set(Set(ss, "demo_running", TRUE), "current_scenario", selected)
               ELSE ss
        r1 == [ ss |-> ss1,
                page |-> add_live_features(Button(EmptyPage, "launch"), spend),
                rerun |-> FALSE ]
    IN  IF Get(ss1, "demo_running", FALSE)
        THEN run_demo(selected, r1, clicked)
        ELSE r1

\* Variant of main that stores the selector's value as current scenario in
\* every run, not only in the run of a Launch click.
main_TracksSelector(ss, selected, spend, clicked) ==
    LET demo_started == clicked = "launch"
        ss0 == IF demo_started THEN Set(ss, "demo_running", TRUE) ELSE ss
        ss1 == Set(ss0, "current_scenario", selected)
        r1 == [ ss |-> ss1,
                page |-> add_live_features(Button(EmptyPage, "launch"), spend),
                rerun |-> FALSE ]
    IN  IF Get(ss1, "demo_running", FALSE)
        THEN run_demo(ss1["current_scenario"], r1, clicked)
        ELSE r1

\* Variant of main in which Launch also marks the analysis as done.
main_LaunchRunsAnalysis(ss, selected, spend, clicked) ==
    LET demo_started == clicked = "launch"
        ss1 == IF demo_started
               THEN Set(Set(Set(ss, "demo_running", TRUE), "current_scenario", selected),
                        "analysis_done", TRUE)
               ELSE ss
        r1 == [ ss |-> ss1,
                page |-> add_live_features(Button(EmptyPage, "launch"), spend),
                rerun |-> FALSE ]
    IN  IF Get(ss1, "demo_running", FALSE)
        THEN run_demo(ss1["current_scenario"], r1, clicked)
        ELSE r1

main(ss, selected, spend, clicked) ==
    LET demo_started == clicked = "launch"
        ss1 == IF demo_started
               THEN Set(Set(ss, "demo_running", TRUE), "current_scenario", selected)
               ELSE ss
        r1 == [ ss |-> ss1,
                page |-> add_live_features(Button(EmptyPage, "launch"), spend),
                rerun |-> FALSE ]
    IN  IF Get(ss1, "demo_running", FALSE)
        THEN run_demo(ss1["current_scenario"], r1, clicked)
        ELSE r1

\* One interaction: the run it causes and, if that run ends in st.rerun(),
\* the run that follows at once, in which no button is clicked.
script_run(ss, selected, spend, clicked) ==
    LET r == main(ss, selected, spend, clicked)
    IN  IF r.rerun THEN main(r.ss, selected, spend, "none") ELSE r

(***************************************************************************)
(* State.                                                                  *)
(***************************************************************************)
VARIABLES
    session_state,      \* st.session_state
    selected_scenario,  \* value of the scenario selector
    monthly_spend,      \* value of the spend input
    view,               \* the page rendered by the last run
    last,               \* history: what caused the last run
    trace,              \* history: the first MaxTrace button clicks of the session
    steps,              \* history: number of button clicks, saturating at MaxTrace + 1
    rejected,           \* history: Reject was clicked at the gate since the last Launch / reset
    defers,             \* history: Defer clicks at the gate since the last Launch / reset
    launched,           \* history: the selector's value at the last Launch ("none" after a reset)
    watch,              \* history: the scenario whose approval is followed ("none": not followed)
    watch_analyzed,     \* history: Start Analysis was clicked while `watch' was the current scenario
    watch_approved,     \* history: Approve was clicked while `watch' was the current scenario
    DEMO_ALERTS,        \* agent.py: the module's DEMO_ALERTS dict
    now,                \* the clock datetime.now() reads
    tool_call,          \* the last call of a tool or lookup function: its name and argument
    tool_result,        \* what that call returned, or the exception it raised
    tools_called        \* history: the tool functions called so far

dashboard_vars == << session_state, selected_scenario, monthly_spend, view, last, trace,
                     steps, rejected, defers, launched >>

approval_vars == << watch, watch_analyzed, watch_approved >>

facade_vars == << DEMO_ALERTS, now, tool_call, tool_result, tools_called >>

vars == << session_state, selected_scenario, monthly_spend, view, last, trace,
           steps, rejected, defers, launched, watch, watch_analyzed, watch_approved,
           DEMO_ALERTS, now, tool_call, tool_result, tools_called >>

demo_running == Get(session_state, "demo_running", FALSE)
analysis_done == Get(session_state, "analysis_done", FALSE)
execution_done == Get(session_state, "execution_done", FALSE)
HasScenario == "current_scenario" \in DOMAIN session_state

\* The plan awaits approval: the Plan -> Execute gate.
AtGate == analysis_done /\ ~execution_done

Min(a, b) == IF a < b THEN a ELSE b

\* No tool or lookup function has been called.
NoCall == [ tool |-> "none", id |-> "none" ]

NoResult == [ none |-> TRUE ]

\* The agent module has just been imported: DEMO_ALERTS is as built at clock 0.
FacadeInit ==
    /\ DEMO_ALERTS = DEMO_ALERTS_at_import(0)
    /\ now = 0
    /\ tool_call = NoCall
    /\ tool_result = NoResult
    /\ tools_called = {}

\* The session opens with a first run of the script in which nothing is clicked.
DashboardInit ==
    /\ session_state = EmptySession
    /\ selected_scenario = alert_scenarios[1]
    /\ monthly_spend = default_value
    /\ view = script_run(EmptySession, alert_scenarios[1], default_value, "none").page
    /\ last = "none"
    /\ trace = << >>
    /\ steps = 0
    /\ rejected = FALSE
    /\ defers = 0
    /\ launched = "none"

Init ==
    /\ DashboardInit
    /\ FacadeInit
    /\ watch = "none"
    /\ watch_analyzed = FALSE
    /\ watch_approved = FALSE

\* The run caused by one interaction, with the widget values it carries.
Interact(clicked, selected, spend) ==
    LET r == script_run(session_state, selected, spend, clicked)
    IN  /\ session_state' = r.ss
        /\ view' = r.page
        /\ selected_scenario' = selected
        /\ monthly_spend' = spend
        /\ last' = clicked

\* A click on a button the page offers.
Click(b) ==
    /\ b \in view.buttons
    /\ Interact(b, selected_scenario, monthly_spend)
    /\ trace' = IF steps < MaxTrace THEN Append(trace, b) ELSE << >>
    /\ steps' = Min(steps + 1, MaxTrace + 1)
    /\ UNCHANGED << approval_vars, facade_vars >>

Launch ==
    /\ Click("launch")
    /\ rejected' = FALSE
    /\ defers' = 0
    /\ launched' = selected_scenario

StartAnalysis ==
    /\ Click("start_analysis")
    /\ UNCHANGED << rejected, defers, launched >>

Approve ==
    /\ Click("approve")
    /\ UNCHANGED << rejected, defers, launched >>

Reject ==
    /\ Click("reject")
    /\ rejected' = (rejected \/ AtGate)
    /\ UNCHANGED << defers, launched >>

Defer ==
    /\ Click("defer")
    /\ defers' = IF AtGate THEN Min(defers + 1, MaxDefers) ELSE defers
    /\ UNCHANGED << rejected, launched >>

Reset ==
    /\ Click("run_another")
    /\ rejected' = FALSE
    /\ defers' = 0
    /\ launched' = "none"

\* The user picks another option of the scenario selector.
SelectScenario ==
    \E s \in Scenarios \ {selected_scenario} :
        /\ Interact("none", s, monthly_spend)
        /\ UNCHANGED << trace, steps, rejected, defers, launched, approval_vars, facade_vars >>

\* The user changes the spend input.
SetSpend ==
    \E v \in SpendInputs \ {monthly_spend} :
        /\ Interact("none", selected_scenario, v)
        /\ UNCHANGED << trace, steps, rejected, defers, launched, approval_vars, facade_vars >>

Next ==
    \/ Launch
    \/ StartAnalysis
    \/ Approve
    \/ Reject
    \/ Defer
    \/ Reset
    \/ SelectScenario
    \/ SetSpend

Spec == Init /\ [][Next]_vars

(***************************************************************************)
(* The tool functions and the lookup functions as called from outside,     *)
(* in any order, with any identifier.                                      *)
(***************************************************************************)
\* tools=[...] of root_agent
Tools == { "process_cloud_alert", "analyze_root_cause", "generate_remediation_plan",
           "simulate_remediation_execution" }

Lookups == { "get_alert_info", "get_analysis_data", "get_remediation_data",
             "get_impact_data" }

\* The identifiers a caller may pass: those of the agent, those of the
\* dashboard, and one that neither knows.
AlertTypes ==
    { DEMO_ALERTS_keys[i] : i \in 1..Len(DEMO_ALERTS_keys) } \cup Scenarios
        \cup { "unknown_alert" }

\* The tool `name' applied to `alert_type'.
tool(name, alert_type, D, t) ==
    CASE name = "process_cloud_alert" -> process_cloud_alert(alert_type, D, t)
      [] name = "analyze_root_cause" -> analyze_root_cause(alert_type, D, t)
      [] name = "generate_remediation_plan" -> generate_remediation_plan(alert_type, D, t)
      [] name = "simulate_remediation_execution" ->
             simulate_remediation_execution(alert_type, D, t)

\* The lookup function `name' applied to `scenario'.
lookup(name, scenario) ==
    CASE name = "get_alert_info" -> get_alert_info(scenario)
      [] name = "get_analysis_data" -> get_analysis_data(scenario)
      [] name = "get_remediation_data" -> get_remediation_data(scenario)
      [] name = "get_impact_data" -> get_impact_data(scenario)

\* Time passes.
Tick ==
    /\ now < MaxClock
    /\ now' = now + 1
    /\ UNCHANGED << DEMO_ALERTS, tool_call, tool_result, tools_called,
                    dashboard_vars, approval_vars >>

ToolCall(name, alert_type) ==
    LET out == tool(name, alert_type, DEMO_ALERTS, now)
    IN  /\ tool_call' = [ tool |-> name, id |-> alert_type ]
        /\ tool_result' = out.returns
        /\ DEMO_ALERTS' = out.DEMO_ALERTS
        /\ tools_called' = tools_called \cup {name}
        /\ UNCHANGED << now, dashboard_vars, approval_vars >>

CallProcessCloudAlert ==
    \E id \in AlertTypes : ToolCall("process_cloud_alert", id)

CallAnalyzeRootCause ==
    \E id \in AlertTypes : ToolCall("analyze_root_cause", id)

CallGenerateRemediationPlan ==
    \E id \in AlertTypes : ToolCall("generate_remediation_plan", id)

CallSimulateRemediationExecution ==
    \E id \in AlertTypes : ToolCall("simulate_remediation_execution", id)

\* A lookup function of the dashboard called directly.
CallLookup ==
    \E name \in Lookups, id \in AlertTypes :
        /\ tool_call' = [ tool |-> name, id |-> id ]
        /\ tool_result' = lookup(name, id)
        /\ UNCHANGED << DEMO_ALERTS, now, tools_called, dashboard_vars, approval_vars >>

FacadeNext ==
    \/ Tick
    \/ CallProcessCloudAlert
    \/ CallAnalyzeRootCause
    \/ CallGenerateRemediationPlan
    \/ CallSimulateRemediationExecution
    \/ CallLookup

FacadeSpec == Init /\ [][FacadeNext]_vars

(***************************************************************************)
(* Properties.                                                             *)
(***************************************************************************)
Shown(section) == section \in DOMAIN view.shown

GateButtons == { "approve", "reject", "defer" }

\* C1: in every reachable state the completed stages form a prefix of Detect,
\* Analyze, Plan, Execute: execution_done only if analysis_done, and
\* analysis_done only if a scenario is selected (demo_running and
\* current_scenario both set).
C1_StagesFormPrefix ==
    /\ execution_done => analysis_done
    /\ analysis_done => (demo_running /\ HasScenario)

\* C1 witness: a session that went through to Done and then saw the gate used again.
C1_Witness ==
    /\ execution_done /\ analysis_done /\ demo_running /\ HasScenario
    /\ last = "reject"

\* C2 (as claimed): the state right after any Launch has the selector's
\* scenario as current scenario and no completed stage.
C2_LaunchClearsStages ==
    last = "launch" =>
        /\ session_state["current_scenario"] = launched
        /\ ~analysis_done
        /\ ~execution_done

\* C3 (as claimed): once Reject was clicked at the Plan -> Execute gate, and
\* until a reset or a new Launch, execution_done stays false and the
\* execution results are never rendered.
C3_RejectIsTerminal ==
    rejected => (~execution_done /\ ~Shown("results"))

\* C4: a Defer at the Plan -> Execute gate leaves the session state as it is,
\* still at the gate with the three choices offered, and an Approve made at
\* the gate after any number of Defers sets execution_done and shows the
\* execution results.
C4_DeferKeepsPlan ==
    [][ /\ (Defer /\ AtGate) =>
              /\ session_state' = session_state
              /\ AtGate'
              /\ GateButtons \subseteq view'.buttons
              /\ view'.notice = "deferred"
        /\ (Approve /\ AtGate /\ defers > 0) =>
              /\ execution_done'
              /\ analysis_done'
              /\ session_state'["current_scenario"] = session_state["current_scenario"]
              /\ "results" \in DOMAIN view'.shown
      ]_vars

\* C4 witness: Done reached by an Approve that followed MaxDefers Defers at the gate.
C4_Witness ==
    /\ defers = MaxDefers
    /\ last = "approve"
    /\ execution_done
    /\ Shown("results")

\* C5: from a fresh session, Launch, Start Analysis, Approve reaches Done for
\* the launched scenario, whichever it is, and the page then shows that
\* scenario's impact summary with status Success and commands-run 3/3.
C5_EndToEnd ==
    trace = << "launch", "start_analysis", "approve" >> =>
        /\ execution_done /\ analysis_done /\ demo_running
        /\ launched \in Scenarios
        /\ session_state["current_scenario"] = launched
        /\ Shown("impact") /\ Shown("results")
        /\ view.shown["impact"] = impacts[launched]
        /\ view.shown["results"].status = "Success"
        /\ view.shown["results"].commands_run = "3/3"

\* C5 witness: the end-to-end run for cost_anomaly.
C5_Witness ==
    /\ trace = << "launch", "start_analysis", "approve" >>
    /\ launched = "cost_anomaly"
    /\ execution_done
    /\ Shown("impact")

\* C6 (as claimed): each of Detect -> Analyze, Analyze -> Plan, Plan -> Execute
\* has a trigger of its own: the analysis appears only by Start Analysis, the
\* remediation plan only by a trigger other than Start Analysis, and the
\* execution results only by Approve.
C6_OwnTriggerPerTransition ==
    [][ /\ (~Shown("analysis") /\ "analysis" \in DOMAIN view'.shown) => StartAnalysis
        /\ (~Shown("remediation") /\ "remediation" \in DOMAIN view'.shown) => ~StartAnalysis
        /\ (~Shown("results") /\ "results" \in DOMAIN view'.shown) => Approve
      ]_vars

\* C6 (amended): analysis_done becomes true only by Start Analysis and
\* execution_done only by Approve; Analyze -> Plan has no trigger of its own:
\* a run shows the remediation plan exactly when it shows the analysis,
\* that is exactly when analysis_done is set, so the run of Start Analysis
\* itself exposes the plan.
C6_PlanComesWithAnalysis ==
    [][ /\ (~analysis_done /\ analysis_done') => StartAnalysis
        /\ (~execution_done /\ execution_done') => Approve
        /\ ("remediation" \in DOMAIN view'.shown) <=> analysis_done'
        /\ ("analysis" \in DOMAIN view'.shown) <=> analysis_done'
        /\ StartAnalysis => "remediation" \in DOMAIN view'.shown
      ]_vars

\* C6 witness: the run of the first Start Analysis shows the plan.
C6_Witness ==
    /\ trace = << "launch", "start_analysis" >>
    /\ last = "start_analysis"
    /\ Shown("remediation")
    /\ GateButtons \subseteq view.buttons

\* C7: a trigger whose predecessor stage is not complete has no effect: the
\* page offers Approve only when analysis_done is set and Start Analysis only
\* when a scenario is selected, and a run with such a click, were it sent
\* all the same, leaves the session state as it is.
C7_OutOfOrderHasNoEffect ==
    /\ "approve" \in view.buttons => (analysis_done /\ HasScenario)
    /\ "start_analysis" \in view.buttons => (demo_running /\ HasScenario)
    /\ ~analysis_done =>
          script_run(session_state, selected_scenario, monthly_spend, "approve").ss
              = session_state
    /\ ~HasScenario =>
          \A b \in { "start_analysis", "approve" } :
              script_run(session_state, selected_scenario, monthly_spend, b).ss
                  = session_state

\* C7 witness: a scenario is selected, the analysis has not run, Approve is not offered.
C7_Witness ==
    /\ HasScenario /\ ~analysis_done
    /\ "approve" \notin view.buttons
    /\ script_run(session_state, selected_scenario, monthly_spend, "approve").ss
           = session_state

\* C8: Start Analysis right after Start Analysis, and Approve right after
\* Approve, leave the session state as the first click left it, and the
\* second run prints no error.
C8_CompletingIsIdempotent ==
    [][ ((StartAnalysis /\ last = "start_analysis") \/ (Approve /\ last = "approve")) =>
            /\ session_state' = session_state
            /\ view'.notice = "none"
      ]_vars

\* C8 witness: Start Analysis was clicked twice in a row.
C8_Witness ==
    /\ trace = << "launch", "start_analysis", "start_analysis" >>
    /\ analysis_done
    /\ ~execution_done

\* C9: right after Run Another Demo no session key is left, and while no
\* demo is running the page shows no stage and offers Launch only.
C9_ResetClearsAll ==
    /\ last = "run_another" => session_state = EmptySession
    /\ ~demo_running => (DOMAIN view.shown = {} /\ view.buttons = { "launch" })

\* C9 witness: the state right after Run Another Demo.
C9_Witness ==
    /\ last = "run_another"
    /\ DOMAIN session_state = {}
    /\ DOMAIN view.shown = {}

\* C10 (as claimed): whenever a scenario is selected the page offers the reset trigger.
C10_ResetAlwaysOffered ==
    HasScenario => "run_another" \in view.buttons

\* C10 (amended): the page offers the reset trigger exactly when
\* execution_done is set, and there a click on it discards the whole session
\* state; before the analysis and while the plan awaits approval it is not
\* offered.
C10_ResetOfferedWhenDone ==
    /\ "run_another" \in view.buttons <=> execution_done
    /\ execution_done =>
          script_run(session_state, selected_scenario, monthly_spend, "run_another").ss
              = EmptySession

\* C10 witness: the plan awaits approval and no reset trigger is offered.
C10_Witness ==
    /\ AtGate
    /\ HasScenario
    /\ "run_another" \notin view.buttons

\* The identifiers of the tool result's list of valid identifiers.
Elements(seq) == { seq[i] : i \in 1..Len(seq) }

IsError(result) == "json" \in DOMAIN result /\ "error" \in DOMAIN result.json

\* C11: process_cloud_alert with an identifier that is no key of DEMO_ALERTS
\* returns (does not raise) an error result whose available_types lists
\* exactly the keys of DEMO_ALERTS, each once; with a key it returns that
\* key's alert record and no error field.
C11_UnknownAlertListsTypes ==
    tool_call.tool = "process_cloud_alert" =>
        /\ "raised" \notin DOMAIN tool_result
        /\ "json" \in DOMAIN tool_result
        /\ IF tool_call.id \in DOMAIN DEMO_ALERTS
           THEN /\ "error" \notin DOMAIN tool_result.json
                /\ "alert_details" \in DOMAIN tool_result.json
                /\ tool_result.json.alert_details = DEMO_ALERTS[tool_call.id]
           ELSE /\ "error" \in DOMAIN tool_result.json
                /\ "available_types" \in DOMAIN tool_result.json
                /\ Elements(tool_result.json.available_types) = DOMAIN DEMO_ALERTS
                /\ Len(tool_result.json.available_types) = Cardinality(DOMAIN DEMO_ALERTS)

\* C11 witness: process_cloud_alert was called with an identifier it does not know.
C11_Witness ==
    /\ tool_call = [ tool |-> "process_cloud_alert", id |-> "unknown_alert" ]
    /\ IsError(tool_result)
    /\ tool_result.json.available_types = DEMO_ALERTS_keys

\* C12 (as claimed): the other three tools answer an identifier they do not
\* know with an error result that lists the valid identifiers.
C12_OtherToolsListTypes ==
    (/\ tool_call.tool \in Tools \ { "process_cloud_alert" }
     /\ tool_call.id \notin DOMAIN DEMO_ALERTS) =>
        /\ IsError(tool_result)
        /\ "available_types" \in DOMAIN tool_result.json
        /\ Elements(tool_result.json.available_types) = DOMAIN DEMO_ALERTS

\* The field in which a tool's result carries the time of the call.
TimestampField(name) ==
    CASE name = "process_cloud_alert" -> "analysis_timestamp"
      [] name = "analyze_root_cause" -> "analysis_timestamp"
      [] name = "generate_remediation_plan" -> "plan_generated"
      [] name = "simulate_remediation_execution" -> "execution_timestamp"

\* A tool result without its timestamp field.
WithoutTimestamp(name, result) ==
    [ result EXCEPT !.json = [ k \in (DOMAIN @) \ { TimestampField(name) } |-> @[k] ] ]

\* C13: the tools are stateless: whatever calls came before and whenever
\* the call is made, a tool's result apart from its timestamp field is the
\* one the same call gives on the freshly imported module; DEMO_ALERTS is
\* never changed by a call; and simulate_remediation_execution answers a
\* known identifier with its execution result whether or not the other
\* three tools were called.
C13_ToolsAreStateless ==
    /\ DEMO_ALERTS = DEMO_ALERTS_at_import(0)
    /\ tool_call.tool \in Tools =>
          WithoutTimestamp(tool_call.tool, tool_result)
              = WithoutTimestamp(tool_call.tool,
                    tool(tool_call.tool, tool_call.id, DEMO_ALERTS_at_import(0), 0).returns)
    /\ (/\ tool_call.tool = "simulate_remediation_execution"
        /\ tool_call.id \in DOMAIN execution_results) =>
          /\ ~IsError(tool_result)
          /\ tool_result.json.status = execution_results[tool_call.id].status
          /\ tool_result.json.outcome = execution_results[tool_call.id].outcome

\* C13 witness: simulate_remediation_execution answered a known identifier,
\* at a later time than the import, with no other tool ever called.
C13_Witness ==
    /\ tool_call = [ tool |-> "simulate_remediation_execution", id |-> "cost_spike" ]
    /\ tools_called = { "simulate_remediation_execution" }
    /\ now = MaxClock
    /\ tool_result.json.status = "SUCCESS"
    /\ tool_result.json.execution_timestamp = isoformat(MaxClock)

\* C15 (as claimed): every scenario identifier the dashboard offers is
\* answered without error by each of the four tools.
C15_ToolsAcceptDashboardScenarios ==
    (tool_call.tool \in Tools /\ tool_call.id \in Scenarios) => ~IsError(tool_result)

\* C16 (as claimed): a lookup function of the dashboard called with an
\* identifier outside the closed set returns an error result and does not
\* raise.
C16_LookupReturnsUnknownScenario ==
    (tool_call.tool \in Lookups /\ tool_call.id \notin Scenarios) =>
        /\ "raised" \notin DOMAIN tool_result
        /\ "error" \in DOMAIN tool_result

\* The identifiers a tool answers without an error.
Accepted(name) ==
    { id \in AlertTypes : ~IsError(tool(name, id, DEMO_ALERTS, now).returns) }

CatalogSections == { "alert", "analysis", "remediation", "impact" }

\* C14: the four tables of the dashboard have the same key set, the set of
\* the selector's options; the four tools accept the same identifiers as
\* each other; the current scenario is always such a key, and no record on
\* the page is a failed lookup.
C14_CatalogComplete ==
    /\ DOMAIN alerts = Scenarios
    /\ DOMAIN analysis = Scenarios
    /\ DOMAIN plans = Scenarios
    /\ DOMAIN impacts = Scenarios
    /\ \A t1, t2 \in Tools : Accepted(t1) = Accepted(t2)
    /\ HasScenario => session_state["current_scenario"] \in Scenarios
    /\ selected_scenario \in Scenarios
    /\ \A section \in CatalogSections \cap DOMAIN view.shown :
          "raised" \notin DOMAIN view.shown[section]

\* C14 witness: all four lookups were made for the last scenario of the catalog.
C14_Witness ==
    /\ HasScenario
    /\ session_state["current_scenario"] = alert_scenarios[Len(alert_scenarios)]
    /\ CatalogSections \subseteq DOMAIN view.shown

\* C17: every record on the page is the catalog record of the session's
\* current scenario.
C17_ViewIsOfCurrentScenario ==
    DOMAIN view.shown # {} =>
        /\ HasScenario
        /\ Shown("alert")
        /\ view.shown["alert"] = alerts[session_state["current_scenario"]]
        /\ Shown("analysis") =>
              view.shown["analysis"] = analysis[session_state["current_scenario"]]
        /\ Shown("remediation") =>
              view.shown["remediation"] = plans[session_state["current_scenario"]]
        /\ Shown("impact") =>
              view.shown["impact"] = impacts[session_state["current_scenario"]]

\* C17 witness: all four records are shown while the selector points at
\* another scenario than the current one.
C17_Witness ==
    /\ CatalogSections \subseteq DOMAIN view.shown
    /\ HasScenario
    /\ selected_scenario # session_state["current_scenario"]
    /\ view.shown["impact"] = impacts[session_state["current_scenario"]]

CurrentScenario == Get(session_state, "current_scenario", "none")

\* C19: current_scenario changes only by Launch or by the reset; a change
\* of the selector or of the spend input leaves the session state as it is;
\* analysis_done becomes true only by Start Analysis and execution_done
\* only by Approve; Reject and Defer leave the session state as it is.
C19_OwnTriggerPerKey ==
    [][ /\ (CurrentScenario' # CurrentScenario) => (Launch \/ Reset)
        /\ (SelectScenario \/ SetSpend) => (session_state' = session_state)
        /\ (~analysis_done /\ analysis_done') => StartAnalysis
        /\ (~execution_done /\ execution_done') => Approve
        /\ (Reject \/ Defer) => (session_state' = session_state)
      ]_vars

\* C19 witness: selector and spend input were both changed after a Launch,
\* and the current scenario is still the launched one.
C19_Witness ==
    /\ last = "none"
    /\ HasScenario
    /\ session_state["current_scenario"] = launched
    /\ selected_scenario # launched
    /\ monthly_spend # default_value

(***************************************************************************)
(* The dashboard with the approval of one scenario followed: `watch' is    *)
(* any scenario, and the history records the Start Analysis and Approve    *)
(* clicks made while it was the current scenario.                          *)
(***************************************************************************)
ApprovalInit ==
    /\ DashboardInit
    /\ FacadeInit
    /\ watch \in Scenarios
    /\ watch_analyzed = FALSE
    /\ watch_approved = FALSE

\* The followed scenario is the session's current scenario.
Watched == HasScenario /\ session_state["current_scenario"] = watch

\* A click on a button the page offers.
WatchClick(b) ==
    /\ b \in view.buttons
    /\ Interact(b, selected_scenario, monthly_spend)
    /\ UNCHANGED << trace, steps, rejected, defers, launched, watch, facade_vars >>

WatchLaunch ==
    /\ WatchClick("launch")
    /\ UNCHANGED << watch_analyzed, watch_approved >>

WatchStartAnalysis ==
    /\ WatchClick("start_analysis")
    /\ watch_analyzed' = (watch_analyzed \/ Watched)
    /\ UNCHANGED watch_approved

WatchApprove ==
    /\ WatchClick("approve")
    /\ watch_approved' = (watch_approved \/ Watched)
    /\ UNCHANGED watch_analyzed

WatchReject ==
    /\ WatchClick("reject")
    /\ UNCHANGED << watch_analyzed, watch_approved >>

WatchDefer ==
    /\ WatchClick("defer")
    /\ UNCHANGED << watch_analyzed, watch_approved >>

WatchReset ==
    /\ WatchClick("run_another")
    /\ UNCHANGED << watch_analyzed, watch_approved >>

ApprovalNext ==
    \/ WatchLaunch
    \/ WatchStartAnalysis
    \/ WatchApprove
    \/ WatchReject
    \/ WatchDefer
    \/ WatchReset
    \/ SelectScenario
    \/ SetSpend

ApprovalSpec == ApprovalInit /\ [][ApprovalNext]_vars

\* C18: when the execution results are shown for a scenario, Approve was
\* clicked earlier while that scenario was the current one, and the analysis
\* shown with them comes from a Start Analysis click made while that
\* scenario was the current one.
C18_ExecutionFollowsApproval ==
    (Watched /\ Shown("results")) =>
        /\ watch_approved
        /\ Shown("analysis") => watch_analyzed

=============================================================================
